---- MODULE Spec2Model ----
(***************************************************************************)
(* A model of smash::ScatterAction (scatteraction.cc): building the list   *)
(* of collision branches (add_all_processes and the cross-section          *)
(* functions it calls), and generate_final_state with the final-state      *)
(* routines it dispatches to.                                              *)
(*                                                                         *)
(* Numbers.  Cross sections are C++ doubles; they are modelled as exact    *)
(* rationals [n, d] extended with the IEEE special values NaN = 0/0,       *)
(* +inf = 1/0 and -inf = -1/0 (rounding error, far below the 1e-6          *)
(* tolerances of the code, is not modelled).  Energies are integers in     *)
(* MeV, cross-section scaling factors are integers in units of 1/10000,    *)
(* probabilities and uniform draws are integers in units of 1/1000, times  *)
(* are integers in fm/c.  Of a particle's four-momentum the model keeps    *)
(* the longitudinal component pz and the frame it is given in; positions   *)
(* are not modelled.                                                       *)
(***************************************************************************)
EXTENDS Integers, Sequences, FiniteSets, TLC

VARIABLES
  incoming_particles_,  \* <<a, b>>: [type, formation_time, scaling, pz, frame]
  time_of_execution_,   \* Action::time_of_execution_
  sqrt_s,               \* sqrt_s() of the incoming pair, MeV
  string_process_,      \* TRUE iff the StringProcess pointer is set
  string_formation_time_,
  ndebug,               \* TRUE iff the build disables assert()
  collision_channels_,  \* sequence of [type, weight, particle_types]
  branch_origin,        \* per branch: the function that made it (history)
  total_cross_section_, \* running sum of the weights in collision_channels_
  string_sub_cross_sections_sum_,  \* std::array<double, 6>
  string_sub_cross_sections,       \* the five pieces of the last partition
  process_type_,
  partial_cross_section_,
  outgoing_particles_,  \* sequence of particles, as incoming_particles_
  pc,                   \* "constructed", "populated", "done", "failed"
  error,                \* the exception raised, or "none"
  call                  \* history: inputs and local values of the last call

vars ==
  <<incoming_particles_, time_of_execution_, sqrt_s, string_process_,
    string_formation_time_, ndebug, collision_channels_, branch_origin,
    total_cross_section_, string_sub_cross_sections_sum_,
    string_sub_cross_sections, process_type_, partial_cross_section_,
    outgoing_particles_, pc, error, call>>

(***************************************************************************)
(* double arithmetic                                                       *)
(***************************************************************************)
RECURSIVE Gcd(_, _)
Gcd(a, b) ==
  IF b = 0 THEN a ELSE Gcd(b, a % b)

IAbs(x) ==
  IF x < 0 THEN -x ELSE x

Sign(x) ==
  IF x < 0 THEN -1 ELSE IF x > 0 THEN 1 ELSE 0

\* The double n/d; d = 0 gives NaN (n = 0) or an infinity (the sign of n).
Norm(n, d) ==
  IF d = 0 THEN [n |-> Sign(n), d |-> 0]
  ELSE LET g == Gcd(IAbs(n), IAbs(d))
           s == Sign(d)
       IN  [n |-> (s * n) \div g, d |-> (s * d) \div g]

R(k) ==
  [n |-> k, d |-> 1]

NaN ==
  [n |-> 0, d |-> 0]

IsNaN(a) ==
  a.d = 0 /\ a.n = 0

RNeg(a) ==
  [n |-> -a.n, d |-> a.d]

RAdd(a, b) ==
  IF IsNaN(a) \/ IsNaN(b) THEN NaN
  ELSE IF a.d = 0 /\ b.d = 0 THEN (IF a.n = b.n THEN a ELSE NaN)
  ELSE Norm(a.n * b.d + b.n * a.d, a.d * b.d)

RSub(a, b) ==
  RAdd(a, RNeg(b))

RMul(a, b) ==
  Norm(a.n * b.n, a.d * b.d)

RDiv(a, b) ==
  IF IsNaN(a) \/ IsNaN(b) THEN NaN
  ELSE IF b.n < 0 THEN Norm(-(a.n * b.d), a.d * (-b.n))
  ELSE Norm(a.n * b.d, a.d * b.n)

\* a < b on doubles: false whenever an operand is NaN.
RLess(a, b) ==
  IF IsNaN(a) \/ IsNaN(b) THEN FALSE
  ELSE IF a.d = 0 /\ b.d = 0 THEN a.n < b.n
  ELSE a.n * b.d < b.n * a.d

\* a >= b: false when either is NaN
RGeq(a, b) ==
  ~IsNaN(a) /\ ~IsNaN(b) /\ ~RLess(a, b)

\* std::max(a, b) is (a < b) ? b : a.
RMax(a, b) ==
  IF RLess(a, b) THEN b ELSE a

RAbs(a) ==
  [n |-> IAbs(a.n), d |-> a.d]

\* std::exp(-x) for x >= 0, by the rational 1 / (1 + x + x^2/2): 1 at 0,
\* strictly decreasing, 0 at +inf, NaN at NaN.
ExpNeg(x) ==
  IF IsNaN(x) THEN NaN
  ELSE IF x.d = 0 THEN R(0)
  ELSE Norm(2 * x.d * x.d, 2 * x.d * x.d + 2 * x.n * x.d + x.n * x.n)

(***************************************************************************)
(* Particle species (the species catalog behind ParticleType / PdgCode)    *)
(***************************************************************************)
\* ParticleType::list_all()
list_all ==
  <<"p", "pbar", "n", "nbar", "pi_plus", "rho_z", "h1", "Delta_pp">>

charge(t) ==
  CASE t = "p" -> 1 [] t = "pbar" -> -1 [] t = "pi_plus" -> 1
    [] t = "Delta_pp" -> 2 [] OTHER -> 0

baryon_number(t) ==
  CASE t \in {"p", "n", "Delta_pp"} -> 1 [] t \in {"pbar", "nbar"} -> -1
    [] OTHER -> 0

\* true for nucleons and anti-nucleons alike
is_nucleon(t) ==
  t \in {"p", "n", "pbar", "nbar"}

is_pion(t) ==
  t = "pi_plus"

is_baryon(t) ==
  baryon_number(t) # 0

is_stable(t) ==
  t \in {"p", "pbar", "n", "nbar", "pi_plus"}

antiparticle_sign(t) ==
  IF t \in {"pbar", "nbar"} THEN -1 ELSE 1

get_antiparticle(t) ==
  CASE t = "p" -> "pbar" [] t = "pbar" -> "p" [] t = "n" -> "nbar"
    [] t = "nbar" -> "n" [] OTHER -> t

\* const double mN = 0.938, in MeV
mN ==
  938

\* A local variable of the code: F applied to the value v it is set to.
Bind(v, F(_)) ==
  F(v)

(***************************************************************************)
(* Collision branches and the branch list                                  *)
(***************************************************************************)
\* CollisionBranch(types..., weight, process type)
CollisionBranch(types, w, ptype) ==
  [type |-> ptype, weight |-> w, particle_types |-> types]

\* The part of the action a cross-section call reads and changes.
ActionState ==
  [channels |-> collision_channels_, origin |-> branch_origin,
   total |-> total_cross_section_,
   sums |-> string_sub_cross_sections_sum_,
   pieces |-> string_sub_cross_sections,
   consulted |-> {}, error |-> "none"]

\* Action::add_process: append the branch and add its weight to the total.
add_process(st, p, org) ==
  [st EXCEPT !.channels = Append(@, p), !.origin = Append(@, org),
             !.total = RAdd(@, p.weight)]

add_collision(st, p, org) ==
  add_process(st, p, org)

RECURSIVE add_collisions(_, _, _)
add_collisions(st, pv, org) ==
  IF pv = <<>> THEN st
  ELSE add_collisions(add_process(st, Head(pv), org), Tail(pv), org)

consult(st, name) ==
  [st EXCEPT !.consulted = @ \cup {name}]

(***************************************************************************)
(* Cross sections                                                          *)
(***************************************************************************)
\* elastic_parametrization() is the collaborator value elastic_param.
elastic_cross_section(elast_par, elastic_param) ==
  LET elastic_xs == IF ~RLess(elast_par, R(0)) THEN elast_par
                    ELSE elastic_param
  IN  CollisionBranch(<<incoming_particles_[1].type,
                        incoming_particles_[2].type>>,
                      elastic_xs, "Elastic")

\* the difference is taken without the lower limit of zero
NNbar_annihilation_without_floor(st, total_param) ==
  LET nnbar_xsec == RSub(total_param, st.total)
  IN  CollisionBranch(<<"h1", "rho_z">>, nnbar_xsec, "TwoToTwo")

\* the parametrized total is taken whole
NNbar_annihilation_with_whole_total(st, total_param) ==
  LET nnbar_xsec == RMax(R(0), total_param)
  IN  CollisionBranch(<<"h1", "rho_z">>, nnbar_xsec, "TwoToTwo")

\* total_cross_section() is the collaborator value total_param;
\* cross_section() is the running total.
NNbar_annihilation_cross_section(st, total_param) ==
  LET nnbar_xsec == RMax(R(0), RSub(total_param, st.total))
  IN  CollisionBranch(<<"h1", "rho_z">>, nnbar_xsec, "TwoToTwo")

\* the available energy is not checked
NNbar_creation_without_energy_check(xsection) ==
  <<CollisionBranch(<<"p", "pbar">>, xsection, "TwoToTwo"),
    CollisionBranch(<<"n", "nbar">>, xsection, "TwoToTwo")>>

\* xsection is detailed_balance_factor_RR(...) * max(0, ppbar_total -
\* ppbar_elastic), a collaborator value.
NNbar_creation_cross_section(xsection) ==
  IF sqrt_s - 2 * mN < 0 THEN <<>>
  ELSE <<CollisionBranch(<<"p", "pbar">>, xsection, "TwoToTwo"),
         CollisionBranch(<<"n", "nbar">>, xsection, "TwoToTwo")>>

\* the tolerance 1.e-6 of the assertion
Tolerance ==
  [n |-> 1, d |-> 1000000]

\* constexpr float really_small = 1.0e-6
really_small ==
  [n |-> 1, d |-> 1000000]

RECURSIVE CumulativeSums(_, _)
\* string_sub_cross_sections_sum_[0] = 0; sum_[i + 1] = sum_[i] + pieces[i]
CumulativeSums(sums, pieces) ==
  IF pieces = <<>> THEN sums
  ELSE CumulativeSums(Append(sums, RAdd(sums[Len(sums)], Head(pieces))),
                      Tail(pieces))

\* The rebalancing of the diffractive triple xs against sig_string_all.
StringPartition(sig_string_all, xs) ==
  Bind(RAdd(xs[1], xs[2]), LAMBDA single_diffr :
  Bind(RMax(R(0), RSub(sig_string_all, RAdd(single_diffr, xs[3]))),
       LAMBDA nondiffractive_all :
  Bind(RSub(sig_string_all, nondiffractive_all), LAMBDA diffractive :
  Bind(RMax(R(0), RSub(diffractive, single_diffr)), LAMBDA double_diffr :
  Bind(RDiv(RSub(diffractive, double_diffr), single_diffr), LAMBDA a :
    [single_diffr_AX |-> RMul(xs[1], a),
     single_diffr_XB |-> RMul(xs[2], a),
     double_diffr |-> double_diffr,
     nondiffractive_all |-> nondiffractive_all])))))

\* The condition of the assert() after the rebalancing.
PartitionAsserted(sig_string_all, q) ==
  RLess(RAbs(RSub(RAdd(RAdd(RAdd(q.single_diffr_AX, q.single_diffr_XB),
                            q.double_diffr), q.nondiffractive_all),
                  sig_string_all)),
        Tolerance)

\* high_energy is high_energy_cross_section(), elastic_param is
\* elastic_parametrization(), xs is cross_sections_diffractive(...) and
\* hard_xsec is string_hard_cross_section().  The result is the action state
\* with the cumulative array filled (or the error raised), channel_list, and
\* the rebalanced cross sections when the call came to compute them.
string_excitation_cross_sections(st, high_energy, elastic_param, xs, hard_xsec) ==
  Bind(RMax(R(0), RSub(high_energy, elastic_param)), LAMBDA sig_string_all :
    IF ~RLess(R(0), sig_string_all)
    THEN [st |-> st, list |-> <<>>, sig_string_all |-> sig_string_all,
          partition |-> <<>>]
    ELSE IF ~string_process_
    THEN [st |-> [st EXCEPT !.error = "string_process_ should be initialized."],
          list |-> <<>>, sig_string_all |-> sig_string_all,
          partition |-> <<>>]
    ELSE
      Bind(StringPartition(sig_string_all, xs), LAMBDA q :
        IF ~ndebug /\ ~PartitionAsserted(sig_string_all, q)
        THEN [st |-> [st EXCEPT !.error = "assertion failed"],
              list |-> <<>>, sig_string_all |-> sig_string_all,
              partition |-> q]
        ELSE
          Bind(RMul(q.nondiffractive_all,
                    ExpNeg(RDiv(hard_xsec, q.nondiffractive_all))),
               LAMBDA nondiffractive_soft :
          Bind(RSub(q.nondiffractive_all, nondiffractive_soft),
               LAMBDA nondiffractive_hard :
          Bind(RSub(sig_string_all, nondiffractive_hard),
               LAMBDA sig_string_soft :
          Bind(<<q.single_diffr_AX, q.single_diffr_XB, q.double_diffr,
                 nondiffractive_soft, nondiffractive_hard>>,
               LAMBDA pieces :
            [st |-> [st EXCEPT !.pieces = pieces,
                               !.sums = CumulativeSums(<<R(0)>>, pieces)],
             list |->
               (IF RLess(R(0), sig_string_soft)
                THEN <<CollisionBranch(<<>>, sig_string_soft, "StringSoft")>>
                ELSE <<>>)
               \o (IF RLess(R(0), nondiffractive_hard)
                   THEN <<CollisionBranch(<<>>, nondiffractive_hard,
                                          "StringHard")>>
                   ELSE <<>>),
             sig_string_all |-> sig_string_all, partition |-> q]))))))

\* the baryon number is not compared
two_to_one_formation_without_baryon_check(type_resonance, partial_width, breit_wigner) ==
  LET type_particle_a == incoming_particles_[1].type
      type_particle_b == incoming_particles_[2].type
      sym_factor == IF type_particle_a = type_particle_b THEN 2 ELSE 1
  IN  IF charge(type_resonance)
           # charge(type_particle_a) + charge(type_particle_b)
      THEN R(0)
      ELSE IF ~RLess(R(0), partial_width) THEN R(0)
      ELSE RMul(RMul(R(sym_factor), breit_wigner), partial_width)

\* partial_width is type_resonance.get_partial_in_width(...); breit_wigner is
\* the rest of the product: spinfactor * 2 pi^2 / cm_momentum_sqr *
\* spectral_function(srts) * hbarc^2 / fm2_mb.
two_to_one_formation(type_resonance, partial_width, breit_wigner) ==
  LET type_particle_a == incoming_particles_[1].type
      type_particle_b == incoming_particles_[2].type
      sym_factor == IF type_particle_a = type_particle_b THEN 2 ELSE 1
  IN  IF charge(type_resonance)
           # charge(type_particle_a) + charge(type_particle_b)
      THEN R(0)
      ELSE IF baryon_number(type_resonance)
                # baryon_number(type_particle_a) + baryon_number(type_particle_b)
      THEN R(0)
      ELSE IF ~RLess(R(0), partial_width) THEN R(0)
      ELSE RMul(RMul(R(sym_factor), breit_wigner), partial_width)

RECURSIVE resonance_loop(_, _, _, _)
resonance_loop(types, list, partial_width, breit_wigner) ==
  IF types = <<>> THEN list
  ELSE
    LET type_resonance == Head(types)
        type_particle_a == incoming_particles_[1].type
        type_particle_b == incoming_particles_[2].type
        resonance_xsection ==
          two_to_one_formation(type_resonance, partial_width, breit_wigner)
        next ==
          IF is_stable(type_resonance) THEN list
          ELSE IF (~is_stable(type_particle_a)
                     /\ type_resonance = type_particle_a)
                  \/ (~is_stable(type_particle_b)
                        /\ type_resonance = type_particle_b)
          THEN list
          ELSE IF RLess(really_small, resonance_xsection)
          THEN Append(list, CollisionBranch(<<type_resonance>>,
                                            resonance_xsection, "TwoToOne"))
          ELSE list
    IN  resonance_loop(Tail(types), next, partial_width, breit_wigner)

resonance_cross_sections(partial_width, breit_wigner) ==
  resonance_loop(list_all, <<>>, partial_width, breit_wigner)

\* The virtual two_to_two_cross_sections(included_2to2): the inelastic 2->2
\* branches of the pair, here the collaborator's list.
two_to_two_cross_sections(included_2to2, list) ==
  list

(***************************************************************************)
(* add_all_processes                                                       *)
(***************************************************************************)
\* 1000 * sin(pi/2 * k / n) for -n <= k <= n, by Bhaskara's rational
\* 4q / (5 n^2 - q), q = |k| (2n - |k|): exact at k = 0, n/3 and n.
Sin1000(k, n) ==
  LET q == IAbs(k) * (2 * n - IAbs(k))
  IN  Sign(k) * ((4000 * q) \div (5 * n * n - q))

\* 0.5 + 0.5 * sin(0.5 * M_PI * (sqrt_s() - energy) / width), in 1/1000
probability_pythia(energy, width) ==
  LET sin == Sin1000(sqrt_s - energy, width)
  IN  500 + Sign(sin) * ((500 * IAbs(sin)) \div 1000)

both_are_nucleons ==
  is_nucleon(incoming_particles_[1].type)
    /\ is_nucleon(incoming_particles_[2].type)

\* include_pythia and the window of the mixed scattering type, in MeV
\* (energy and width are not set when include_pythia is false)
mix_scatter_type ==
  LET t1 == incoming_particles_[1].type
      t2 == incoming_particles_[2].type
  IN  IF both_are_nucleons
      THEN [include_pythia |-> TRUE, energy |-> 4500, width |-> 500]
      ELSE IF (is_pion(t1) /\ is_nucleon(t2)) \/ (is_nucleon(t1) /\ is_pion(t2))
      THEN [include_pythia |-> TRUE, energy |-> 2050, width |-> 150]
      ELSE [include_pythia |-> FALSE, energy |-> 0, width |-> 0]

enable_pythia_ignoring_pair(strings_switch) ==
  strings_switch

enable_pythia(strings_switch) ==
  strings_switch /\ mix_scatter_type.include_pythia

\* TRUE iff the call reaches Random::uniform(0., 1.)
draws_uniform(strings_switch) ==
  LET m == mix_scatter_type
  IN  /\ enable_pythia(strings_switch)
      /\ ~(sqrt_s > m.energy + m.width)
      /\ sqrt_s > m.energy - m.width

is_pythia_from_window_start(strings_switch, u) ==
  LET m == mix_scatter_type
  IN  enable_pythia(strings_switch) /\ sqrt_s > m.energy - m.width

\* u is the value of Random::uniform(0., 1.), in 1/1000
is_pythia(strings_switch, u) ==
  LET m == mix_scatter_type
  IN  /\ enable_pythia(strings_switch)
      /\ \/ sqrt_s > m.energy + m.width
         \/ /\ sqrt_s > m.energy - m.width
            /\ probability_pythia(m.energy, m.width) > u

reject_by_cutoff_any_sign(low_snn_cut) ==
  both_are_nucleons /\ sqrt_s < low_snn_cut

reject_by_nucleon_elastic_cutoff(low_snn_cut) ==
  /\ both_are_nucleons
  /\ antiparticle_sign(incoming_particles_[1].type)
       = antiparticle_sign(incoming_particles_[2].type)
  /\ sqrt_s < low_snn_cut

resonance_branch_in_both_regimes(pythia, two_to_one) ==
  two_to_one

\* the else branch of if (is_pythia), then if (two_to_one)
resonance_branch(pythia, two_to_one) ==
  ~pythia /\ two_to_one

\* a: the arguments; env: what the collaborators return during the call.
add_all_processes(a, env) ==
  LET t1 == incoming_particles_[1].type
      t2 == incoming_particles_[2].type
      incl_elastic == "Elastic" \in a.included_2to2
      nnbar == a.nnbar_treatment = "Resonances"
  IN
  Bind(is_pythia(a.strings_switch, env.u), LAMBDA pythia :
  Bind(IF incl_elastic /\ ~reject_by_nucleon_elastic_cutoff(a.low_snn_cut)
       THEN add_collision(ActionState,
                          elastic_cross_section(a.elastic_parameter,
                                                env.elastic_param),
                          "elastic")
       ELSE ActionState,
       LAMBDA s1 :
  Bind(IF pythia
       THEN Bind(string_excitation_cross_sections(
                   consult(s1, "string"), env.high_energy,
                   env.elastic_param, env.xs, env.hard_xsec),
                 LAMBDA r : add_collisions(r.st, r.list, "string"))
       ELSE s1,
       LAMBDA sS :
  Bind(IF resonance_branch(pythia, a.two_to_one)
       THEN add_collisions(consult(sS, "resonance"),
                           resonance_cross_sections(env.partial_width,
                                                    env.breit_wigner),
                           "resonance")
       ELSE sS,
       LAMBDA sR :
  Bind(IF ~pythia /\ a.included_2to2 # {}
       THEN add_collisions(consult(sR, "two_to_two"),
                           two_to_two_cross_sections(a.included_2to2,
                                                     env.two_to_two),
                           "two_to_two")
       ELSE sR,
       LAMBDA s2 :
    \* an exception of string_excitation_cross_sections ends the call
    IF s2.error # "none" THEN s2
    ELSE
  Bind(IF nnbar /\ is_nucleon(t1) /\ t2 = get_antiparticle(t1)
       THEN add_collision(
              consult(s2, "nnbar_annihilation"),
              NNbar_annihilation_cross_section(s2, env.total_param),
              "nnbar_annihilation")
       ELSE s2,
       LAMBDA s3 :
    IF nnbar /\ ((t1 = "rho_z" /\ t2 = "h1") \/ (t1 = "h1" /\ t2 = "rho_z"))
    THEN add_collisions(consult(s3, "nnbar_creation"),
                        NNbar_creation_cross_section(env.creation_xs),
                        "nnbar_creation")
    ELSE s3))))))

(***************************************************************************)
(* Bounds and input sets                                                   *)
(***************************************************************************)
\* each of the diffractive cross sections AX, XB, DD is in 0..MaxDiffractive
MaxDiffractive ==
  2

\* high_energy_cross_section() is in 0..MaxHighEnergy
MaxHighEnergy ==
  3

\* a particle of the computational frame
ParticleData(t, tform, scaling) ==
  [type |-> t, formation_time |-> tform, scaling |-> scaling, pz |-> 0,
   frame |-> "lab"]

\* nucleon pairs of both signs, pion-nucleon pairs, and pairs of other kinds
AddPairs ==
  {<<"p", "p">>, <<"p", "pbar">>, <<"pbar", "p">>, <<"pbar", "pbar">>,
   <<"p", "pi_plus">>, <<"pi_plus", "pbar">>, <<"pi_plus", "pi_plus">>,
   <<"rho_z", "h1">>, <<"h1", "rho_z">>, <<"p", "rho_z">>,
   <<"Delta_pp", "pi_plus">>, <<"rho_z", "rho_z">>}

\* sqrt_s of the pair, MeV: below, at, inside and above the window of the
\* pair (4000..5000 nucleon-nucleon, 1900..2200 pion-nucleon), around 2 mN
\* for rho-h1, and one low and one high energy for the others
SqrtS(pair) ==
  IF is_nucleon(pair[1]) /\ is_nucleon(pair[2])
  THEN {1800, 4000, 4500, 5000, 5100}
  ELSE IF is_pion(pair[1]) \/ is_pion(pair[2])
  THEN {1800, 1900, 2050, 2200, 2300, 5100}
  ELSE IF pair \in {<<"rho_z", "h1">>, <<"h1", "rho_z">>}
  THEN {1800, 1876, 1900, 5100}
  ELSE {2050, 5100}

\* Random::uniform(0., 1.) is in [0, 1), in 1/1000
Uniform01 ==
  {0, 250, 500, 999}

ElasticParameters ==
  {R(-1), R(0), R(2)}

IncludedReactions ==
  {"Elastic", "NN_to_NR"}

LowSnnCuts ==
  {1900, 6000}

NNbarTreatments ==
  {"NoAnnihilation", "Resonances"}

HighEnergies ==
  {R(k) : k \in 0..MaxHighEnergy}

Diffractive ==
  {<<R(i), R(j), R(k)>> : i \in 0..MaxDiffractive, j \in 0..MaxDiffractive, k \in 0..MaxDiffractive}

\* the triples add_all_processes is run with
DiffractiveSamples ==
  {<<R(0), R(0), R(1)>>, <<R(1), R(1), R(1)>>, <<R(2), R(1), R(0)>>}

HardXsecs ==
  {R(0), R(1)}

\* partial in-width and the rest of the Breit-Wigner product: no width, a
\* product below the noise floor, a product above it
ResonanceSamples ==
  {[partial_width |-> R(0), breit_wigner |-> R(1)],
   [partial_width |-> R(1), breit_wigner |-> [n |-> 1, d |-> 4000000]],
   [partial_width |-> R(1), breit_wigner |-> R(1)]}

TwoToTwoLists ==
  {<<>>, <<CollisionBranch(<<"p", "Delta_pp">>, R(1), "TwoToTwo")>>}

TotalParams ==
  {R(0), R(10)}

CreationXs ==
  {R(0), R(1)}

\* The values of S when the call uses them, one placeholder otherwise.
Used(cond, S, placeholder) ==
  IF cond THEN S ELSE {placeholder}

(***************************************************************************)
(* Building the branch list                                                *)
(***************************************************************************)
\* ScatterAction::ScatterAction for the pair <<a, b>>
Constructed(a, b, time, srts) ==
  /\ incoming_particles_ = <<a, b>>
  /\ time_of_execution_ = time
  /\ sqrt_s = srts
  /\ string_formation_time_ = 1
  /\ collision_channels_ = <<>>
  /\ branch_origin = <<>>
  /\ total_cross_section_ = R(0)
  /\ string_sub_cross_sections_sum_ = <<>>
  /\ string_sub_cross_sections = <<>>
  /\ process_type_ = "None"
  /\ partial_cross_section_ = R(0)
  /\ outgoing_particles_ = <<>>
  /\ pc = "constructed"
  /\ error = "none"
  /\ call = [op |-> "ScatterAction"]

InitAdd ==
  /\ \E pair \in AddPairs :
       \E srts \in SqrtS(pair) :
         Constructed(ParticleData(pair[1], 0, 10000),
                     ParticleData(pair[2], 0, 10000), 1, srts)
  /\ string_process_ \in BOOLEAN
  /\ ndebug \in BOOLEAN

\* Writes the action state st back after a call that built branches.
Populate(st, record) ==
  /\ collision_channels_' = st.channels
  /\ branch_origin' = st.origin
  /\ total_cross_section_' = st.total
  /\ string_sub_cross_sections_sum_' = st.sums
  /\ string_sub_cross_sections' = st.pieces
  /\ error' = st.error
  /\ pc' = IF st.error = "none" THEN "populated" ELSE "failed"
  /\ call' = record
  /\ UNCHANGED <<incoming_particles_, time_of_execution_, sqrt_s,
                 string_process_, string_formation_time_, ndebug,
                 process_type_, partial_cross_section_, outgoing_particles_>>

\* An argument or a collaborator value the call does not read takes one
\* placeholder value.
AddAllProcesses ==
  /\ pc = "constructed"
  /\ \E included_2to2 \in SUBSET IncludedReactions,
        strings_switch \in BOOLEAN, nnbar_treatment \in NNbarTreatments,
        two_to_one \in BOOLEAN :
       \E low_snn_cut \in Used(both_are_nucleons
                                 /\ antiparticle_sign(incoming_particles_[1].type)
                                      = antiparticle_sign(incoming_particles_[2].type),
                               LowSnnCuts, 1900),
          u \in Used(draws_uniform(strings_switch), Uniform01, 0) :
         LET strings == is_pythia(strings_switch, u)
             partition == strings /\ string_process_
             elastic == "Elastic" \in included_2to2
                          /\ ~reject_by_nucleon_elastic_cutoff(low_snn_cut)
             nnbar == nnbar_treatment = "Resonances"
             annihilates ==
               /\ is_nucleon(incoming_particles_[1].type)
               /\ incoming_particles_[2].type
                    = get_antiparticle(incoming_particles_[1].type)
         IN  \E elastic_parameter \in Used(elastic, ElasticParameters, R(2)),
                high_energy \in Used(strings, HighEnergies, R(0)),
                xs \in Used(partition, DiffractiveSamples, <<R(0), R(0), R(0)>>),
                hard_xsec \in Used(partition, HardXsecs, R(0)),
                two_to_two \in Used(~strings /\ included_2to2 # {},
                                    TwoToTwoLists, <<>>),
                total_param \in Used(nnbar /\ annihilates, TotalParams, R(0)),
                creation_xs \in Used(nnbar, CreationXs, R(0)) :
               \E res \in Used(resonance_branch(strings, two_to_one),
                               ResonanceSamples,
                               [partial_width |-> R(0), breit_wigner |-> R(0)]) :
                 LET a == [elastic_parameter |-> elastic_parameter,
                           two_to_one |-> two_to_one,
                           included_2to2 |-> included_2to2,
                           low_snn_cut |-> low_snn_cut,
                           strings_switch |-> strings_switch,
                           nnbar_treatment |-> nnbar_treatment]
                     env == [u |-> u, elastic_param |-> R(1),
                             high_energy |-> high_energy, xs |-> xs,
                             hard_xsec |-> hard_xsec,
                             partial_width |-> res.partial_width,
                             breit_wigner |-> res.breit_wigner,
                             two_to_two |-> two_to_two,
                             total_param |-> total_param,
                             creation_xs |-> creation_xs]
                     st == add_all_processes(a, env)
                 IN  Populate(st,
                       [op |-> "add_all_processes", args |-> a,
                        draws |-> IF draws_uniform(strings_switch)
                                  THEN <<u>> ELSE <<>>,
                        consulted |-> st.consulted,
                        total_param |-> total_param, res |-> res,
                        first |-> Len(collision_channels_) + 1])

\* add_collisions(string_excitation_cross_sections()) on its own, with the
\* diffractive triple drawn from Triples
StringProcesses(Triples) ==
  /\ pc = "constructed"
  /\ \E high_energy \in HighEnergies :
       \E xs \in Used(string_process_, Triples, <<R(0), R(0), R(0)>>),
          hard_xsec \in Used(string_process_, HardXsecs, R(0)) :
         LET r == string_excitation_cross_sections(
                    consult(ActionState, "string"), high_energy, R(1), xs,
                    hard_xsec)
             st == add_collisions(r.st, r.list, "string")
         IN  Populate(st,
               [op |-> "string_excitation_cross_sections",
                sig_string_all |-> r.sig_string_all, xs |-> xs,
                hard_xsec |-> hard_xsec, partition |-> r.partition,
                consulted |-> st.consulted,
                first |-> Len(collision_channels_) + 1])

AddStringProcesses ==
  StringProcesses(Diffractive)

NextAdd ==
  \/ AddAllProcesses
  \/ AddStringProcesses

SpecAdd ==
  InitAdd /\ [][NextAdd]_vars

(***************************************************************************)
(* generate_final_state                                                    *)
(***************************************************************************)
\* ParticleData(type): formation time 0, scaling factor 1; its momentum is
\* set in the centre-of-momentum frame
new_particle(t) ==
  [type |-> t, formation_time |-> 0, scaling |-> 10000, pz |-> 0,
   frame |-> "cm"]

\* ProcessBranch::particle_list()
particle_list(proc) ==
  [i \in 1..Len(proc.particle_types) |-> new_particle(proc.particle_types[i])]

RECURSIVE choose_from(_, _, _)
choose_from(i, weight_sum, random_weight) ==
  IF i > Len(collision_channels_) THEN 0
  ELSE LET upper == RAdd(weight_sum, collision_channels_[i].weight)
       IN  IF RLess(random_weight, upper) THEN i
           ELSE choose_from(i + 1, upper, random_weight)

\* Action::choose_channel: the index of the first branch whose cumulative
\* upper bound exceeds the draw total * u (u in 1/1000); 0 is no selection.
choose_channel(u) ==
  IF collision_channels_ = <<>> \/ ~RLess(R(0), total_cross_section_) THEN 0
  ELSE choose_from(1, R(0),
                   RMul(total_cross_section_, [n |-> u, d |-> 1000]))

IMax(a, b) ==
  IF a > b THEN a ELSE b

\* a * b of two scaling factors
Scaled(a, b) ==
  (a * b) \div 10000

\* Action::sample_angles: back-to-back momenta of magnitude p_cm
sample_angles(out, p_cm) ==
  [i \in 1..Len(out) |->
     [out[i] EXCEPT !.pz = IF i = 1 THEN p_cm ELSE -p_cm, !.frame = "cm"]]

elastic_scattering_first_twice(out, p_cm) ==
  sample_angles([out EXCEPT ![1] = incoming_particles_[1],
                            ![2] = incoming_particles_[1]], p_cm)

\* copies the initial particles into the final state, resamples momenta
elastic_scattering(out, p_cm) ==
  sample_angles([out EXCEPT ![1] = incoming_particles_[1],
                            ![2] = incoming_particles_[2]], p_cm)

\* on equal formation times the factor of the first particle is taken
inherit_formation_first_on_tie(out) ==
  LET t0 == incoming_particles_[1].formation_time
      t1 == incoming_particles_[2].formation_time
      index_tmax == IF t0 >= t1 THEN 1 ELSE 2
      sc == incoming_particles_[index_tmax].scaling
  IN  IF t0 > time_of_execution_ \/ t1 > time_of_execution_
      THEN [i \in 1..Len(out) |->
              [out[i] EXCEPT !.formation_time = IMax(t0, t1), !.scaling = sc]]
      ELSE [i \in 1..Len(out) |->
              [out[i] EXCEPT !.formation_time = time_of_execution_]]

\* The formation time and scaling factor of the products of a resonance
\* formation or of a 2->2 scattering.
inherit_formation(out) ==
  LET t0 == incoming_particles_[1].formation_time
      t1 == incoming_particles_[2].formation_time
      index_tmax == IF t0 > t1 THEN 1 ELSE 2
      sc == incoming_particles_[index_tmax].scaling
  IN  IF t0 > time_of_execution_ \/ t1 > time_of_execution_
      THEN [i \in 1..Len(out) |->
              [out[i] EXCEPT !.formation_time = IMax(t0, t1), !.scaling = sc]]
      ELSE [i \in 1..Len(out) |->
              [out[i] EXCEPT !.formation_time = time_of_execution_]]

inelastic_scattering(out, p_cm) ==
  inherit_formation(sample_angles(out, p_cm))

\* the number of outgoing particles is not tested
resonance_formation_unchecked(out) ==
  [error |-> "none",
   out |-> inherit_formation(<<[out[1] EXCEPT !.pz = 0]>> \o Tail(out))]

\* the error is the exception thrown, out the outgoing particles then
resonance_formation(out) ==
  IF Len(out) # 1
  THEN [error |-> "InvalidResonanceFormation", out |-> out]
  ELSE [error |-> "none",
        out |-> inherit_formation(<<[out[1] EXCEPT !.pz = 0]>>)]

adjust_unformed_replacing(out) ==
  LET t0 == incoming_particles_[1].formation_time
      t1 == incoming_particles_[2].formation_time
      tform_in == IMax(t0, t1)
      fin == IF t0 > t1 THEN incoming_particles_[1].scaling
             ELSE incoming_particles_[2].scaling
  IN  IF tform_in > time_of_execution_
      THEN [i \in 1..Len(out) |->
              [out[i] EXCEPT !.scaling = fin,
                             !.formation_time = IMax(tform_in, @)]]
      ELSE out

\* "If the incoming particles already were unformed, the formation times
\* and cross section scaling factors need to be adjusted"
adjust_unformed(out) ==
  LET t0 == incoming_particles_[1].formation_time
      t1 == incoming_particles_[2].formation_time
      tform_in == IMax(t0, t1)
      fin == IF t0 > t1 THEN incoming_particles_[1].scaling
             ELSE incoming_particles_[2].scaling
  IN  IF tform_in > time_of_execution_
      THEN [i \in 1..Len(out) |->
              [out[i] EXCEPT
                 !.scaling = Scaled(fin, @),
                 !.formation_time = IF tform_in > @ THEN tform_in ELSE @]]
      ELSE out

\* const int ntry_max = 10000
ntry_max ==
  10000

\* The subprocess of the draw r_xsec = sum_[4] * u among the first four
\* partition pieces; -1 when no interval holds r_xsec.
RECURSIVE soft_subprocess(_, _)
soft_subprocess(i, r_xsec) ==
  IF i >= 4 THEN -1
  ELSE IF RGeq(r_xsec, string_sub_cross_sections_sum_[i + 1])
          /\ RLess(r_xsec, string_sub_cross_sections_sum_[i + 2])
  THEN i
  ELSE soft_subprocess(i + 1, r_xsec)

\* while (!success && ntry < ntry_max) { ntry++; success = next_...(); }
\* first_success is the number of the collaborator's first successful
\* attempt, 0 when none of ntry_max attempts succeeds: the loop ends after
\* that attempt with success, or after ntry_max attempts.
soft_retry_loop(first_success) ==
  IF first_success \in 1..ntry_max
  THEN [ntry |-> first_success, success |-> TRUE]
  ELSE [ntry |-> ntry_max, success |-> FALSE]

\* u is Random::uniform(0., 1.) in 1/1000, final_state is
\* string_process_->get_final_state() after the attempts.
string_excitation_soft(out, u, first_success, final_state) ==
  LET r_xsec == RMul(string_sub_cross_sections_sum_[5], [n |-> u, d |-> 1000])
      iproc == soft_subprocess(0, r_xsec)
      loop == soft_retry_loop(first_success)
  IN  IF iproc = -1
      THEN [error |-> "soft string subprocess is not specified.",
            out |-> out, generated |-> <<>>, iproc |-> iproc, ntry |-> 0,
            success |-> FALSE]
      ELSE IF loop.ntry = ntry_max
      THEN [error |-> "too many tries in string_excitation_soft().",
            out |-> out, generated |-> <<>>, iproc |-> iproc,
            ntry |-> loop.ntry, success |-> loop.success]
      ELSE [error |-> "none", out |-> adjust_unformed(final_state),
            generated |-> final_state, iproc |-> iproc, ntry |-> loop.ntry,
            success |-> loop.success]

\* K_short and K_long become K0 or anti-K0 by a uniform draw (in 1/1000)
pythia_code(pythia_id, prob) ==
  IF pythia_id \in {"K_S0", "K_L0"}
  THEN (IF prob <= 500 THEN "K0" ELSE "Kbar0")
  ELSE pythia_id

sorts_before_ascending(i, j) ==
  IAbs(i.pz) < IAbs(j.pz)

\* the comparison of std::sort: i goes before j
sorts_before(i, j) ==
  IAbs(i.pz) > IAbs(j.pz)

\* order is a result of std::sort on list: a permutation no two elements of
\* which are out of order (the order of equal elements is not defined)
IsSorted(list, order) ==
  \A i, j \in 1..Len(list) :
    i < j => ~sorts_before(list[order[j]], list[order[i]])

\* ParticleData::operator==(int) in "data == 0", "data == 1": the particle
\* of that rank in the sorted list
data_equals(rank, k) ==
  rank = k

\* the scaling factor of the particle of the given rank (from 0)
hard_scaling_factor(rank) ==
  LET suppression_factor == 7000
  IN  IF is_baryon(incoming_particles_[1].type)
         \/ is_baryon(incoming_particles_[2].type)
      THEN IF data_equals(rank, 0) THEN Scaled(suppression_factor, 6600)
           ELSE IF data_equals(rank, 1) THEN Scaled(suppression_factor, 3400)
           ELSE Scaled(suppression_factor, 0)
      ELSE IF data_equals(rank, 0) \/ data_equals(rank, 1)
           THEN Scaled(suppression_factor, 5000)
           ELSE Scaled(suppression_factor, 0)

\* event: the final hadrons of the Pythia event, [id, pz, gamma] with gamma
\* the Lorentz factor of the hadron in the computational frame; order: the
\* result of std::sort; kaon_draws: one uniform draw per hadron, used for
\* the neutral kaons; initialized: the result of pythia.init().
string_excitation_pythia(out, event, order, kaon_draws, initialized) ==
  IF ~initialized
  THEN [error |-> "Pythia failed to initialize.", out |-> out,
        generated |-> <<>>]
  ELSE
    LET new_intermediate_particles ==
          [i \in 1..Len(event) |->
             [new_particle(pythia_code(event[i].id, kaon_draws[i]))
                EXCEPT !.pz = event[i].pz]]
        data == [i \in 1..Len(event) |->
                   [new_intermediate_particles[order[i]] EXCEPT
                      !.scaling = hard_scaling_factor(i - 1),
                      !.formation_time =
                        string_formation_time_ * event[order[i]].gamma
                          + time_of_execution_]]
    IN  [error |-> "none", out |-> adjust_unformed(out \o data),
         generated |-> out \o data]

\* new_particle.boost_momentum(-beta_cm()) for every outgoing particle
boost_to_computational_frame(out) ==
  [i \in 1..Len(out) |-> [out[i] EXCEPT !.frame = "lab"]]

\* The assignments from the chosen branch, the dispatch on its process type
\* and the boost.  inp: what the random source and the collaborators return
\* during the call.  The result holds the members the call assigns and the
\* exception it ends with ("none": it returns).
finalize_chosen(chosen, inp) ==
  LET proc == collision_channels_[chosen]
      out == particle_list(proc)
  IN  Bind(CASE proc.type = "Elastic" ->
                  [error |-> "none",
                   out |-> elastic_scattering(out, inp.p_cm)]
             [] proc.type = "TwoToOne" -> resonance_formation(out)
             [] proc.type = "TwoToTwo" ->
                  [error |-> "none",
                   out |-> inelastic_scattering(out, inp.p_cm)]
             [] proc.type = "StringSoft" ->
                  string_excitation_soft(out, inp.u_soft, inp.first_success,
                                         inp.final_state)
             [] proc.type = "StringHard" ->
                  string_excitation_pythia(out, inp.event, inp.order,
                                           inp.kaon_draws, inp.initialized)
             [] OTHER -> [error |-> "InvalidScatterAction", out |-> out],
           LAMBDA r :
             [error |-> r.error, process_type_ |-> proc.type,
              partial_cross_section_ |-> proc.weight,
              outgoing_particles_ |->
                IF r.error = "none" THEN boost_to_computational_frame(r.out)
                ELSE r.out,
              local |-> r])

\* the failure of choose_channel is taken for a branch of no process type
generate_final_state_ignoring_failure(u, inp) ==
  IF choose_channel(u) = 0
  THEN [error |-> "InvalidScatterAction", process_type_ |-> process_type_,
        partial_cross_section_ |-> partial_cross_section_,
        outgoing_particles_ |-> outgoing_particles_,
        local |-> [error |-> "InvalidScatterAction", out |-> <<>>]]
  ELSE finalize_chosen(choose_channel(u), inp)

\* u: the draw of choose_channel.  The exception of choose_channel goes to
\* the caller before any member is assigned.
generate_final_state(u, inp) ==
  IF choose_channel(u) = 0
  THEN [error |-> "choose_channel", process_type_ |-> process_type_,
        partial_cross_section_ |-> partial_cross_section_,
        outgoing_particles_ |-> outgoing_particles_, local |-> <<>>]
  ELSE finalize_chosen(choose_channel(u), inp)

(***************************************************************************)
(* Finalizing an action                                                    *)
(***************************************************************************)
\* the final hadrons of a Pythia event number 1..MaxHadrons
MaxHadrons ==
  3

\* incoming particles: formed ones, and unformed ones whose formation time
\* is after the time of execution 1 and whose scaling factor is below 1
IncomingSamples ==
  {ParticleData("p", 0, 10000), ParticleData("p", 2, 5000),
   ParticleData("pi_plus", 2, 2000), ParticleData("pi_plus", 3, 2000),
   ParticleData("pi_plus", 1, 10000)}

\* final hadrons of Pythia: two of equal |pz|, a K_short
HadronSamples ==
  {[id |-> "p", pz |-> 3, gamma |-> 1],
   [id |-> "pi_plus", pz |-> -3, gamma |-> 2],
   [id |-> "K_S0", pz |-> 1, gamma |-> 1]}

Events ==
  UNION {[1..n -> HadronSamples] : n \in 1..MaxHadrons}

\* the results std::sort may leave
SortResults(event) ==
  {order \in Permutations(1..Len(event)) :
     IsSorted(event, [i \in 1..Len(event) |-> order[i]])}

\* one draw for every K_short or K_long of the event, in 1/1000 (0 is
\* the entry of a hadron without draw)
KaonDraws(event) ==
  {d \in [1..Len(event) -> {0, 500, 501}] :
     \A i \in 1..Len(event) :
       d[i] = 0 <=> event[i].id \notin {"K_S0", "K_L0"}}

\* the number of the first successful attempt; 0: no attempt succeeds
FirstSuccesses ==
  {0, 1, ntry_max - 1, ntry_max}

\* string_process_->get_final_state(): particles of the fragmentation, with
\* the formation times and scaling factors the string process gave them
SoftFinalStates ==
  {<<[type |-> "p", formation_time |-> 2, scaling |-> 10000, pz |-> 2,
      frame |-> "cm"],
     [type |-> "pi_plus", formation_time |-> 4, scaling |-> 3000, pz |-> -2,
      frame |-> "cm"]>>,
   <<[type |-> "pi_plus", formation_time |-> 3, scaling |-> 0, pz |-> 1,
      frame |-> "cm"],
     [type |-> "p", formation_time |-> 3, scaling |-> 6000, pz |-> -2,
      frame |-> "cm"],
     [type |-> "pi_plus", formation_time |-> 1, scaling |-> 4000, pz |-> 1,
      frame |-> "cm"]>>}

\* branch lists a caller may register: an elastic branch, a resonance and a
\* 2->2 branch, a branch of weight zero before a 2->2 branch, a resonance
\* branch with two products, a branch of a kind without final state, none
BranchLists ==
  {<<elastic_cross_section(R(1), R(1))>>,
   <<CollisionBranch(<<"Delta_pp">>, R(1), "TwoToOne"),
     CollisionBranch(<<"p", "Delta_pp">>, R(1), "TwoToTwo")>>,
   <<elastic_cross_section(R(0), R(1)),
     CollisionBranch(<<"p", "Delta_pp">>, R(2), "TwoToTwo")>>,
   <<CollisionBranch(<<"p", "pi_plus">>, R(1), "TwoToOne")>>,
   <<CollisionBranch(<<"p">>, R(1), "Decay")>>,
   <<>>}

InitFinal ==
  /\ \E a \in IncomingSamples, b \in IncomingSamples :
       Constructed(a, b, 1, 5100)
  /\ string_process_ = TRUE
  /\ ndebug \in BOOLEAN

\* add_collisions(pv) called from outside
AddCollisions ==
  /\ pc = "constructed"
  /\ \E pv \in BranchLists :
       LET st == add_collisions(ActionState, pv, "caller")
       IN  Populate(st, [op |-> "add_collisions",
                         first |-> Len(collision_channels_) + 1])

\* diffractive triples with and without single-diffractive part
StringSamples ==
  {<<R(0), R(0), R(1)>>, <<R(1), R(0), R(0)>>, <<R(1), R(0), R(1)>>,
   <<R(1), R(1), R(1)>>}

AddStringSamples ==
  StringProcesses(StringSamples)

\* The inputs of a kind are drawn when the chosen branch is of that kind.
GenerateFinalState ==
  /\ pc = "populated"
  /\ \E u \in Used(Len(collision_channels_) > 1, Uniform01, 0) :
       LET chosen == choose_channel(u)
           kind == IF chosen = 0 THEN "None"
                   ELSE collision_channels_[chosen].type
           soft == kind = "StringSoft"
           hard == kind = "StringHard"
       IN  \E p_cm \in Used(kind \in {"Elastic", "TwoToTwo"}, {1, 2}, 0),
              u_soft \in Used(soft, Uniform01, 0),
              first_success \in Used(soft, FirstSuccesses, 1),
              final_state \in Used(soft, SoftFinalStates, <<>>),
              initialized \in Used(hard, BOOLEAN, TRUE) :
             \E event \in Used(hard /\ initialized, Events, <<>>) :
               \E order \in SortResults(event),
                  kaon_draws \in KaonDraws(event) :
                 LET g == generate_final_state(u,
                            [p_cm |-> p_cm, u_soft |-> u_soft,
                             first_success |-> first_success,
                             final_state |-> final_state,
                             initialized |-> initialized, event |-> event,
                             order |-> order, kaon_draws |-> kaon_draws])
                 IN  /\ process_type_' = g.process_type_
                     /\ partial_cross_section_' = g.partial_cross_section_
                     /\ outgoing_particles_' = g.outgoing_particles_
                     /\ error' = g.error
                     /\ pc' = IF g.error = "none" THEN "done" ELSE "failed"
                     /\ call' = [op |-> "generate_final_state",
                                 chosen |-> chosen, u |-> u,
                                 first_success |-> first_success,
                                 event |-> event, local |-> g.local]
  /\ UNCHANGED <<incoming_particles_, time_of_execution_, sqrt_s,
                 string_process_, string_formation_time_, ndebug,
                 collision_channels_, branch_origin, total_cross_section_,
                 string_sub_cross_sections_sum_, string_sub_cross_sections>>

NextFinal ==
  \/ AddCollisions
  \/ AddStringSamples
  \/ GenerateFinalState

SpecFinal ==
  InitFinal /\ [][NextFinal]_vars

\* two nucleons, a nucleon and its antiparticle, rho and h1, below and
\* above the energies of the string window and of twice the nucleon mass
InitAll ==
  /\ \E pair \in {<<"p", "p">>, <<"p", "pbar">>, <<"rho_z", "h1">>} :
       \E srts \in {1800, 5100} :
         Constructed(ParticleData(pair[1], 0, 10000),
                     ParticleData(pair[2], 0, 10000), 1, srts)
  /\ string_process_ \in BOOLEAN
  /\ ndebug \in BOOLEAN

\* an action populated by add_all_processes and then finalized
NextAll ==
  \/ AddAllProcesses
  \/ GenerateFinalState

SpecAll ==
  InitAll /\ [][NextAll]_vars

(***************************************************************************)
(* Properties of add_all_processes                                         *)
(***************************************************************************)
AddCalled ==
  call.op = "add_all_processes"

\* the indices of the branches the call appended
Added ==
  call.first .. Len(collision_channels_)

StringTypes ==
  {"StringSoft", "StringHard"}

NucleonNucleon ==
  is_nucleon(incoming_particles_[1].type)
    /\ is_nucleon(incoming_particles_[2].type)

PionNucleon ==
  \/ is_pion(incoming_particles_[1].type)
       /\ is_nucleon(incoming_particles_[2].type)
  \/ is_nucleon(incoming_particles_[1].type)
       /\ is_pion(incoming_particles_[2].type)

StringsRequested ==
  "string" \in call.consulted

InsideWindow ==
  \/ NucleonNucleon /\ 4000 < sqrt_s /\ sqrt_s < 5000
  \/ PionNucleon /\ 1900 < sqrt_s /\ sqrt_s < 2200

\* C1: with strings_switch on, a nucleon-nucleon pair gets the string
\* branches requested at every sqrt_s above 5.0 GeV and never below 4.0 GeV,
\* a pion-nucleon pair at every sqrt_s above 2.2 GeV and never below 1.9 GeV;
\* strictly inside the window the call makes exactly one random draw and the
\* strings are requested iff the probability of the energy exceeds the draw.
C1_StringThresholds ==
  (AddCalled /\ call.args.strings_switch) =>
    /\ (NucleonNucleon /\ sqrt_s > 5000) => StringsRequested
    /\ (NucleonNucleon /\ sqrt_s < 4000) => ~StringsRequested
    /\ (PionNucleon /\ sqrt_s > 2200) => StringsRequested
    /\ (PionNucleon /\ sqrt_s < 1900) => ~StringsRequested
    /\ InsideWindow =>
         /\ Len(call.draws) = 1
         /\ StringsRequested <=>
              (IF NucleonNucleon THEN probability_pythia(4500, 500)
               ELSE probability_pythia(2050, 150)) > call.draws[1]

\* inside the window, a draw that chose the strings
C1_Witness ==
  AddCalled /\ call.args.strings_switch /\ InsideWindow /\ StringsRequested

\* inside the window, a draw that chose the resonances
C1_WitnessResonances ==
  AddCalled /\ call.args.strings_switch /\ InsideWindow /\ ~StringsRequested

\* C8: the branches one add_all_processes call appends never hold both a
\* string branch and a branch of resonance_cross_sections or of
\* two_to_two_cross_sections, and neither are both catalogs asked; beside a
\* string branch there are only the elastic and the NNbar branches.
C8_RegimesExclusive ==
  AddCalled =>
    /\ ~(/\ \E i \in Added : collision_channels_[i].type \in StringTypes
         /\ \E j \in Added : branch_origin[j] \in {"resonance", "two_to_two"})
    /\ ~(/\ StringsRequested
         /\ call.consulted \cap {"resonance", "two_to_two"} # {})
    /\ (\E i \in Added : collision_channels_[i].type \in StringTypes) =>
         \A j \in Added :
           \/ collision_channels_[j].type \in StringTypes
           \/ branch_origin[j] \in {"elastic", "nnbar_annihilation",
                                    "nnbar_creation"}

\* string branches together with the elastic and the annihilation branch
C8_Witness ==
  /\ AddCalled
  /\ \E i \in Added : collision_channels_[i].type \in StringTypes
  /\ \E i \in Added : branch_origin[i] = "elastic"
  /\ \E i \in Added : branch_origin[i] = "nnbar_annihilation"

\* C9: with strings_switch off, or for a pair that is neither
\* nucleon-nucleon nor pion-nucleon, no StringSoft or StringHard branch is
\* added and the string catalog is not asked; the resonance catalog is asked
\* iff two_to_one and the 2->2 catalog iff any reaction is included.
C9_NoStringsOtherwise ==
  (AddCalled /\ (~call.args.strings_switch
                   \/ ~(NucleonNucleon \/ PionNucleon))) =>
    /\ \A i \in Added : collision_channels_[i].type \notin StringTypes
    /\ ~StringsRequested
    /\ "resonance" \in call.consulted <=> call.args.two_to_one
    /\ "two_to_two" \in call.consulted <=> call.args.included_2to2 # {}

\* strings_switch on, a high energy, and a pair of another kind
C9_Witness ==
  /\ AddCalled /\ call.args.strings_switch
  /\ ~(NucleonNucleon \/ PionNucleon)
  /\ sqrt_s > 5000
  /\ "resonance" \in call.consulted

ElasticAdded ==
  Cardinality({i \in Added : collision_channels_[i].type = "Elastic"})

\* C10: no Elastic branch is added when both particles are nucleons of the
\* same antiparticle sign and sqrt_s is below low_snn_cut; in every other
\* case with elastic included exactly one is added, whatever the regime.
C10_ElasticCutoff ==
  AddCalled =>
    LET t1 == incoming_particles_[1].type
        t2 == incoming_particles_[2].type
        cut == /\ is_nucleon(t1) /\ is_nucleon(t2)
               /\ antiparticle_sign(t1) = antiparticle_sign(t2)
               /\ sqrt_s < call.args.low_snn_cut
    IN  ElasticAdded
          = IF "Elastic" \in call.args.included_2to2 /\ ~cut THEN 1 ELSE 0

\* the string regime below the cut: no Elastic branch beside the strings
C10_Witness ==
  /\ AddCalled /\ StringsRequested
  /\ "Elastic" \in call.args.included_2to2
  /\ sqrt_s < call.args.low_snn_cut
  /\ NucleonNucleon
  /\ ElasticAdded = 0
  /\ \E i \in Added : collision_channels_[i].type \in StringTypes

\* the string regime with the elastic branch beside the strings
C10_WitnessElasticWithStrings ==
  /\ AddCalled /\ StringsRequested /\ ElasticAdded = 1
  /\ collision_channels_[call.first].weight = R(0)

(***************************************************************************)
(* Properties of string_excitation_cross_sections                          *)
(***************************************************************************)
\* the call went past the check of string_process_ with an aggregate > 0
Partitioned ==
  /\ call.op = "string_excitation_cross_sections"
  /\ RLess(R(0), call.sig_string_all)
  /\ string_process_

PiecesSum ==
  RAdd(RAdd(RAdd(RAdd(string_sub_cross_sections[1],
                      string_sub_cross_sections[2]),
                 string_sub_cross_sections[3]),
            string_sub_cross_sections[4]),
       string_sub_cross_sections[5])

\* C2: for every aggregate A > 0 and every non-negative diffractive triple,
\* zero components included, the assertion does not fail and the five
\* pieces sum to A within 1e-6.
C2_PartitionSumsToAggregate ==
  Partitioned =>
    /\ error # "assertion failed"
    /\ Len(string_sub_cross_sections) = 5
    /\ RLess(RAbs(RSub(PiecesSum, call.sig_string_all)), Tolerance)

\* the same, for the triples with AX + XB > 0 and a hard cross section > 0
PartitionSumsWithSingleDiffractive ==
  (/\ Partitioned
   /\ RLess(R(0), RAdd(call.xs[1], call.xs[2]))
   /\ RLess(R(0), call.hard_xsec)) =>
    /\ error # "assertion failed"
    /\ Len(string_sub_cross_sections) = 5
    /\ RLess(RAbs(RSub(PiecesSum, call.sig_string_all)), Tolerance)

\* the sum AX + XB + DD of the collaborator's diffractive cross sections
DiffractiveTotal ==
  RAdd(RAdd(call.xs[1], call.xs[2]), call.xs[3])

\* x <= y on values that are numbers
RLeq(x, y) ==
  ~IsNaN(x) /\ ~IsNaN(y) /\ ~RLess(y, x)

\* AX and XB were changed by one common factor between 0 and 1
CommonFactor(q) ==
  /\ RMul(q.single_diffr_AX, call.xs[2]) = RMul(q.single_diffr_XB, call.xs[1])
  /\ RLeq(R(0), q.single_diffr_AX) /\ RLeq(q.single_diffr_AX, call.xs[1])
  /\ RLeq(R(0), q.single_diffr_XB) /\ RLeq(q.single_diffr_XB, call.xs[2])

Rebalanced(q) ==
  IF RLess(call.sig_string_all, DiffractiveTotal)
  THEN /\ q.nondiffractive_all = R(0)
       /\ RAdd(q.double_diffr, RAdd(q.single_diffr_AX, q.single_diffr_XB))
            = call.sig_string_all
       /\ CommonFactor(q)
  ELSE /\ q.single_diffr_AX = call.xs[1]
       /\ q.single_diffr_XB = call.xs[2]
       /\ q.double_diffr = call.xs[3]
       /\ q.nondiffractive_all = RSub(call.sig_string_all, DiffractiveTotal)

\* C11: if AX + XB + DD exceeds the aggregate A, then after the rebalancing
\* the non-diffractive part is 0 and double-diffractive plus
\* single-diffractive equals A, AX and XB shrunk by one common factor;
\* otherwise AX, XB and DD are unchanged and the non-diffractive part is the
\* remainder A - (AX + XB + DD).
C11_Rebalancing ==
  Partitioned => Rebalanced(call.partition)

\* the same, for the triples with AX + XB > 0
RebalancingWithSingleDiffractive ==
  Partitioned /\ RLess(R(0), RAdd(call.xs[1], call.xs[2]))
    => Rebalanced(call.partition)

\* both cases of the rebalancing happen with AX + XB > 0, the first one with
\* AX and XB shrunk and with AX and XB kept
RebalancingShrinks ==
  /\ Partitioned
  /\ RLess(call.sig_string_all, DiffractiveTotal)
  /\ RLess(R(0), call.partition.single_diffr_AX)
  /\ RLess(call.partition.single_diffr_AX, call.xs[1])
  /\ RLess(R(0), call.xs[2])

RebalancingDrainsDoubleOnly ==
  /\ Partitioned
  /\ RLess(call.sig_string_all, DiffractiveTotal)
  /\ RLess(R(0), call.partition.double_diffr)
  /\ RLess(call.partition.double_diffr, call.xs[3])
  /\ call.partition.single_diffr_AX = call.xs[1]
  /\ RLess(R(0), call.xs[1])

RebalancingLeavesRemainder ==
  /\ Partitioned
  /\ RLess(DiffractiveTotal, call.sig_string_all)
  /\ RLess(R(0), call.xs[1])
  /\ RLess(R(0), call.partition.nondiffractive_all)

(***************************************************************************)
(* Properties of generate_final_state                                      *)
(***************************************************************************)
Generated ==
  call.op = "generate_final_state"

Finalized ==
  pc = "done"

\* the larger formation time of the incoming particles
T_in ==
  IMax(incoming_particles_[1].formation_time,
       incoming_particles_[2].formation_time)

TooManyTries ==
  "too many tries in string_excitation_soft()."

\* the attempts of string_excitation_soft were made
SoftAttempted ==
  Generated /\ process_type_ = "StringSoft" /\ call.local.iproc # -1

\* C3: in string_excitation_soft the fragmentation call is attempted at most
\* 10,000 times, stopping at the first success; the error 'too many tries'
\* is raised if and only if none of the 10,000 attempts succeeded, and when
\* some attempt up to and including the 10,000th succeeds no error is raised
\* and the final state of the collaborator becomes the outgoing list.
C3_TooManyTriesIffNoSuccess ==
  SoftAttempted =>
    /\ call.local.ntry <= ntry_max
    /\ (call.first_success # 0 => call.local.ntry = call.first_success)
    /\ (error = TooManyTries <=> call.first_success = 0)
    /\ (call.first_success # 0 =>
          /\ error = "none"
          /\ Len(outgoing_particles_) = Len(call.local.generated))

\* the error is raised although no attempt before the last one succeeded
\* and the last one did
C3_ErrorAfterLastAttemptSucceeded ==
  /\ SoftAttempted
  /\ call.first_success = ntry_max
  /\ call.local.success
  /\ error = TooManyTries

\* an earlier success ends the loop without error
C3_StopsAtFirstSuccess ==
  SoftAttempted /\ call.first_success = ntry_max - 1 => error = "none"

\* C4: finalization is all-or-nothing: the outgoing particle list is empty in
\* every state before generate_final_state completes successfully, and it is
\* still empty after generate_final_state raised a fatal error.
C4_OutgoingEmptyUnlessCompleted ==
  ~Finalized => outgoing_particles_ = <<>>

\* the fatal errors of the string routines leave the list empty
C4_StringErrorsLeaveEmpty ==
  Generated /\ process_type_ \in {"StringSoft", "StringHard"} /\ ~Finalized
    => outgoing_particles_ = <<>>

\* C5: for StringHard and StringSoft, if the larger incoming formation time T
\* exceeds the execution time, every outgoing particle has formation time
\* >= T and its suppression factor is the generated factor multiplied by the
\* factor of the incoming particle with the later formation time; otherwise
\* the generated formation times and factors are unchanged.
C5_StringInheritance ==
  Finalized /\ process_type_ \in {"StringSoft", "StringHard"} =>
    LET gen == call.local.generated
        out == outgoing_particles_
    IN  /\ Len(out) = Len(gen)
        /\ IF T_in > time_of_execution_
           THEN \E k \in 1..2 :
                  /\ incoming_particles_[k].formation_time = T_in
                  /\ \A i \in 1..Len(out) :
                       /\ out[i].formation_time >= T_in
                       /\ out[i].scaling
                            = Scaled(gen[i].scaling,
                                     incoming_particles_[k].scaling)
           ELSE \A i \in 1..Len(out) :
                  /\ out[i].formation_time = gen[i].formation_time
                  /\ out[i].scaling = gen[i].scaling

\* a hard string of unformed incoming particles: a generated factor that is
\* neither 0 nor 1 was multiplied by an incoming factor below 1, and a
\* generated formation time below T was raised
C5_Witness ==
  /\ Finalized
  /\ process_type_ = "StringHard"
  /\ T_in > time_of_execution_
  /\ \E i \in 1..Len(outgoing_particles_) :
       /\ call.local.generated[i].scaling \notin {0, 10000}
       /\ outgoing_particles_[i].scaling < call.local.generated[i].scaling
       /\ outgoing_particles_[i].scaling > 0
  /\ \E i \in 1..Len(outgoing_particles_) :
       call.local.generated[i].formation_time < T_in

C5_WitnessSoft ==
  /\ Finalized
  /\ process_type_ = "StringSoft"
  /\ T_in > time_of_execution_
  /\ \E i \in 1..Len(outgoing_particles_) :
       /\ call.local.generated[i].scaling \notin {0, 10000}
       /\ outgoing_particles_[i].scaling < call.local.generated[i].scaling
       /\ call.local.generated[i].formation_time < T_in

C5_WitnessFormed ==
  /\ Finalized
  /\ process_type_ \in {"StringSoft", "StringHard"}
  /\ T_in <= time_of_execution_
  /\ outgoing_particles_ # <<>>

ElasticDone ==
  Finalized /\ process_type_ = "Elastic"

\* C6 as stated: for the Elastic kind the outgoing pair is a copy of the
\* incoming pair and the inheritance rule applies to it: if an incoming
\* particle has formation time T greater than the execution time, every
\* outgoing particle has formation time >= T.
C6_ElasticInheritsFormationTime ==
  ElasticDone =>
    /\ \A i \in 1..2 :
         outgoing_particles_[i].type = incoming_particles_[i].type
    /\ \A k \in 1..2 :
         incoming_particles_[k].formation_time > time_of_execution_ =>
           \A i \in 1..Len(outgoing_particles_) :
             outgoing_particles_[i].formation_time
               >= incoming_particles_[k].formation_time

\* C6 amended: for the Elastic kind the outgoing pair is a copy of the
\* incoming pair and no inheritance is applied to it: every outgoing
\* particle has the formation time and the suppression factor of the
\* incoming particle at its own position, so that only the copy of an
\* incoming particle with formation time T has formation time T.
C6_ElasticKeepsOwnFormationTime ==
  ElasticDone =>
    /\ Len(outgoing_particles_) = 2
    /\ \A i \in 1..2 :
         /\ outgoing_particles_[i].type = incoming_particles_[i].type
         /\ outgoing_particles_[i].formation_time
              = incoming_particles_[i].formation_time
         /\ outgoing_particles_[i].scaling = incoming_particles_[i].scaling

\* an elastic scattering of an unformed particle and one formed earlier
C6_Witness ==
  /\ ElasticDone
  /\ incoming_particles_[1].formation_time > time_of_execution_
  /\ incoming_particles_[2].formation_time
       < incoming_particles_[1].formation_time
  /\ incoming_particles_[2].scaling # incoming_particles_[1].scaling

HardDoneFormed ==
  /\ Finalized
  /\ process_type_ = "StringHard"
  /\ T_in <= time_of_execution_

C7_WitnessMesons ==
  /\ HardDoneFormed
  /\ ~is_baryon(incoming_particles_[1].type)
  /\ ~is_baryon(incoming_particles_[2].type)
  /\ Len(outgoing_particles_) = 3
  /\ IAbs(call.event[1].pz) < IAbs(call.event[2].pz)

\* the aggregate is below the diffractive total: the non-diffractive part
\* is gone, the double-diffractive part is lowered, and the
\* single-diffractive parts are lowered, by one factor, only when the
\* double-diffractive part is gone too
Drained(q) ==
  /\ q.nondiffractive_all = R(0)
  /\ RLeq(R(0), q.double_diffr) /\ RLeq(q.double_diffr, call.xs[3])
  /\ CommonFactor(q)
  /\ (q.single_diffr_AX # call.xs[1] \/ q.single_diffr_XB # call.xs[2])
       => q.double_diffr = R(0)
  /\ RLess(R(0), q.double_diffr)
       => (q.single_diffr_AX = call.xs[1] /\ q.single_diffr_XB = call.xs[2])

\* the aggregate is above the diffractive total: the remainder goes to the
\* non-diffractive part
Reinforced(q) ==
  /\ q.single_diffr_AX = call.xs[1]
  /\ q.single_diffr_XB = call.xs[2]
  /\ q.double_diffr = call.xs[3]
  /\ q.nondiffractive_all = RSub(call.sig_string_all, DiffractiveTotal)
  /\ RLess(R(0), q.nondiffractive_all)

\* C19: when the aggregate A is below the diffractive total (with
\* AX + XB > 0) the pieces are drained in the order non-diffractive,
\* double-diffractive, single-diffractive in equal proportion; when A is
\* larger, only the non-diffractive piece grows and the diffractive pieces
\* keep their values.
C19_DrainOrder ==
  Partitioned =>
    /\ (RLess(call.sig_string_all, DiffractiveTotal)
          /\ RLess(R(0), RAdd(call.xs[1], call.xs[2])))
         => Drained(call.partition)
    /\ RLess(DiffractiveTotal, call.sig_string_all)
         => Reinforced(call.partition)

\* the same with a single-diffractive part above zero in both cases
DrainOrderWithSingleDiffractive ==
  (Partitioned /\ RLess(R(0), RAdd(call.xs[1], call.xs[2]))) =>
    /\ RLess(call.sig_string_all, DiffractiveTotal)
         => Drained(call.partition)
    /\ RLess(DiffractiveTotal, call.sig_string_all)
         => Reinforced(call.partition)

\* the double-diffractive part is drained to a rest above zero
DrainsDoubleDiffractive ==
  /\ Partitioned /\ RLess(call.sig_string_all, DiffractiveTotal)
  /\ RLess(R(0), call.partition.double_diffr)
  /\ RLess(call.partition.double_diffr, call.xs[3])
  /\ Drained(call.partition)

\* the single-diffractive parts are drained
DrainsSingleDiffractive ==
  /\ Partitioned /\ RLess(call.sig_string_all, DiffractiveTotal)
  /\ RLess(R(0), call.partition.single_diffr_AX)
  /\ RLess(call.partition.single_diffr_AX, call.xs[1])
  /\ Drained(call.partition)

\* the aggregate is above a diffractive total with single-diffractive part
ReinforcesNondiffractive ==
  /\ Partitioned /\ RLess(DiffractiveTotal, call.sig_string_all)
  /\ RLess(R(0), RAdd(call.xs[1], call.xs[2]))
  /\ Reinforced(call.partition)

\* the aggregate is above a diffractive total without single-diffractive
\* part: AX and XB are 0 * (0 / 0)
ReinforcedWithoutSingleDiffractive ==
  /\ Partitioned /\ RLess(DiffractiveTotal, call.sig_string_all)
  /\ RAdd(call.xs[1], call.xs[2]) = R(0)
  /\ IsNaN(call.partition.single_diffr_AX)

(***************************************************************************)
(* Properties of the channel selection                                     *)
(***************************************************************************)

RECURSIVE WeightBefore(_)
\* the sum of the weights of the branches before the i-th
WeightBefore(i) ==
  IF i <= 1 THEN R(0)
  ELSE RAdd(WeightBefore(i - 1), collision_channels_[i - 1].weight)

\* the draw of choose_channel of the last call
Draw ==
  RMul(total_cross_section_, [n |-> call.u, d |-> 1000])

Selected ==
  Generated /\ call.chosen # 0

C12_WitnessAnnihilation ==
  /\ Selected
  /\ \E i \in 1..Len(collision_channels_) :
       /\ branch_origin[i] = "nnbar_annihilation"
       /\ collision_channels_[i].weight = R(0)
       /\ i # call.chosen

C13_WitnessZeroTotal ==
  /\ Generated /\ collision_channels_ # <<>>
  /\ total_cross_section_ = R(0)
  /\ error = "choose_channel"

(***************************************************************************)
(* Properties of the nucleon-antinucleon branches                          *)
(***************************************************************************)

Annihilation(i) ==
  branch_origin[i] = "nnbar_annihilation"

\* C14: the annihilation branch comes after the elastic, string, resonance
\* and 2->2 branches; its weight is max(0, parametrized total - sum of the
\* weights already in the list), and the total of the action afterwards is
\* max(parametrized total, sum of the other branches).
C14_AnnihilationCloses ==
  AddCalled =>
    \A i \in Added :
      Annihilation(i) =>
        /\ i = Len(collision_channels_)
        /\ \A j \in Added \ {i} :
             branch_origin[j] \in {"elastic", "string", "resonance",
                                   "two_to_two"}
        /\ collision_channels_[i].weight
             = RMax(R(0), RSub(call.total_param, WeightBefore(i)))
        /\ total_cross_section_ = RMax(call.total_param, WeightBefore(i))

\* the parametrized total is above the sum of the branches before
C14_Witness ==
  /\ AddCalled
  /\ \E i \in Added :
       /\ Annihilation(i) /\ i > 1
       /\ RLess(R(0), WeightBefore(i))
       /\ RLess(R(0), collision_channels_[i].weight)
       /\ total_cross_section_ = call.total_param

\* the sum of the branches before is above the parametrized total
C14_WitnessFloor ==
  /\ AddCalled
  /\ \E i \in Added :
       /\ Annihilation(i)
       /\ RLess(call.total_param, WeightBefore(i))
       /\ collision_channels_[i].weight = R(0)
       /\ total_cross_section_ = WeightBefore(i)

\* NNbar_creation_cross_section was called
CreationCalled ==
  AddCalled /\ "nnbar_creation" \in call.consulted

\* the branches NNbar_creation_cross_section returned
Created ==
  {i \in Added : branch_origin[i] = "nnbar_creation"}

\* two TwoToTwo branches of one weight, p pbar and then n nbar
TwoCreated ==
  \E i \in Added :
    /\ Created = {i, i + 1}
    /\ i + 1 \in Added
    /\ collision_channels_[i].type = "TwoToTwo"
    /\ collision_channels_[i + 1].type = "TwoToTwo"
    /\ collision_channels_[i].particle_types = <<"p", "pbar">>
    /\ collision_channels_[i + 1].particle_types = <<"n", "nbar">>
    /\ collision_channels_[i].weight = collision_channels_[i + 1].weight

\* C15 as stated: two equal-weight TwoToTwo branches when sqrt_s exceeds
\* twice the nucleon mass, the empty list for every sqrt_s that does not
\* exceed it.
C15_CreationAboveThreshold ==
  CreationCalled =>
    IF sqrt_s > 2 * mN THEN TwoCreated ELSE Created = {}

\* C15 (amended): two equal-weight TwoToTwo branches when sqrt_s is at least
\* twice the nucleon mass, the empty list when sqrt_s is below it.
C15_CreationFromThreshold ==
  CreationCalled =>
    IF sqrt_s >= 2 * mN THEN TwoCreated ELSE Created = {}

\* the two branches at sqrt_s equal to twice the nucleon mass
C15_Witness ==
  CreationCalled /\ sqrt_s = 2 * mN /\ TwoCreated

C15_WitnessBelow ==
  CreationCalled /\ sqrt_s < 2 * mN /\ Created = {}

C15_WitnessAbove ==
  CreationCalled /\ sqrt_s > 2 * mN /\ TwoCreated

(***************************************************************************)
(* Properties of the resonance branches                                    *)
(***************************************************************************)

\* charge and baryon number of the incoming pair are those of the type
Conserved(type_resonance) ==
  /\ charge(type_resonance)
       = charge(incoming_particles_[1].type)
           + charge(incoming_particles_[2].type)
  /\ baryon_number(type_resonance)
       = baryon_number(incoming_particles_[1].type)
           + baryon_number(incoming_particles_[2].type)

IsIncoming(type_resonance) ==
  \E k \in 1..2 : incoming_particles_[k].type = type_resonance

\* resonance_cross_sections was called
ResonancesCalled ==
  AddCalled /\ "resonance" \in call.consulted

\* the resonance types of the branches resonance_cross_sections returned
Formed ==
  {collision_channels_[i].particle_types[1] :
     i \in {j \in Added : branch_origin[j] = "resonance"}}

\* C16: two_to_one_formation is exactly 0 when charge or baryon number is
\* not conserved, and resonance_cross_sections emits no TwoToOne branch for
\* such a type, for a stable type, for the type of an incoming particle or
\* for a weight that is not above 1e-6.
C16_ResonancesConserve ==
  /\ \A t \in {list_all[k] : k \in 1..Len(list_all)} :
       ~Conserved(t) =>
         \A x \in ResonanceSamples :
           two_to_one_formation(t, x.partial_width, x.breit_wigner) = R(0)
  /\ AddCalled =>
       \A i \in Added :
         (branch_origin[i] = "resonance"
            \/ collision_channels_[i].type = "TwoToOne") =>
           /\ branch_origin[i] = "resonance"
           /\ collision_channels_[i].type = "TwoToOne"
           /\ Len(collision_channels_[i].particle_types) = 1
           /\ Conserved(collision_channels_[i].particle_types[1])
           /\ ~is_stable(collision_channels_[i].particle_types[1])
           /\ ~IsIncoming(collision_channels_[i].particle_types[1])
           /\ RLess(really_small, collision_channels_[i].weight)

\* width and Breit-Wigner product of the call are above the noise floor
AboveFloor ==
  RLess(really_small, RMul(call.res.breit_wigner, call.res.partial_width))

\* two protons have the charge of Delta++ and not its baryon number
C16_Witness ==
  /\ ResonancesCalled /\ AboveFloor
  /\ incoming_particles_[1].type = "p"
  /\ incoming_particles_[2].type = "p"
  /\ Formed = {}

\* a pair that forms Delta++
C16_WitnessFormed ==
  /\ ResonancesCalled /\ AboveFloor
  /\ Formed = {"Delta_pp"}

\* rho and h1 conserve the numbers of the pair and are its own types
C16_WitnessIncoming ==
  /\ ResonancesCalled /\ AboveFloor
  /\ Conserved("rho_z") /\ IsIncoming("rho_z") /\ ~is_stable("rho_z")
  /\ Formed = {}

\* a conserving resonance with a weight below the noise floor
C16_WitnessNegligible ==
  /\ ResonancesCalled /\ ~AboveFloor
  /\ RLess(R(0), RMul(call.res.breit_wigner, call.res.partial_width))
  /\ Conserved("Delta_pp") /\ ~IsIncoming("Delta_pp")
  /\ Formed = {}

(***************************************************************************)
(* Properties of the dispatch                                              *)
(***************************************************************************)

\* the branch the last call selected
Chosen ==
  collision_channels_[call.chosen]

\* C17: a selected branch of a type outside the five raises
\* InvalidScatterAction; a TwoToOne branch whose number of outgoing types
\* is not one raises InvalidResonanceFormation; a TwoToOne finalization
\* that does not raise leaves exactly one outgoing particle.
C17_DispatchErrors ==
  Selected =>
    /\ Chosen.type \notin {"Elastic", "TwoToOne", "TwoToTwo", "StringSoft",
                           "StringHard"}
         => error = "InvalidScatterAction"
    /\ (Chosen.type = "TwoToOne" /\ Len(Chosen.particle_types) # 1)
         => error = "InvalidResonanceFormation"
    /\ (Chosen.type = "TwoToOne" /\ error = "none")
         => Len(outgoing_particles_) = 1

\* a TwoToOne branch with two outgoing types
C17_Witness ==
  /\ Selected /\ Chosen.type = "TwoToOne"
  /\ Len(Chosen.particle_types) = 2
  /\ error = "InvalidResonanceFormation"

\* a branch of the Decay type
C17_WitnessInvalid ==
  /\ Selected /\ Chosen.type = "Decay"
  /\ error = "InvalidScatterAction"

\* a resonance was formed
C17_WitnessFormed ==
  /\ Selected /\ Chosen.type = "TwoToOne" /\ error = "none"
  /\ Len(outgoing_particles_) = 1
  /\ outgoing_particles_[1].type = "Delta_pp"

(***************************************************************************)
(* Properties of the running totals                                        *)
(***************************************************************************)

\* the total is the sum of the weights of the list
TotalIsSumOfWeights ==
  /\ ~IsNaN(total_cross_section_)
  /\ total_cross_section_ = WeightBefore(Len(collision_channels_) + 1)

\* no step lowers the total
TotalNeverDecreases ==
  [][RLeq(total_cross_section_, total_cross_section_')]_vars

\* string_excitation_cross_sections filled the cumulative array
SumsFilled ==
  string_sub_cross_sections_sum_ # <<>>

\* the array starts at 0, does not decrease, and ends at the sum of the
\* five pieces
SumsAccumulate ==
  /\ string_sub_cross_sections_sum_[1] = R(0)
  /\ \A i \in 1..5 :
       RLeq(string_sub_cross_sections_sum_[i],
            string_sub_cross_sections_sum_[i + 1])
  /\ ~IsNaN(PiecesSum)
  /\ string_sub_cross_sections_sum_[6] = PiecesSum

\* C18: total_cross_section_ never decreases and is the sum of the weights
\* of the list after add_collision and add_collisions;
\* string_sub_cross_sections_sum_ starts at 0, is non-decreasing, and its
\* last element is the sum of the five pieces.
C18_TotalsAccumulate ==
  /\ [](TotalIsSumOfWeights /\ (SumsFilled => SumsAccumulate))
  /\ TotalNeverDecreases

\* the five pieces are numbers
PiecesAreNumbers ==
  \A i \in 1..5 : ~IsNaN(string_sub_cross_sections[i])

\* the array of pieces that are numbers
SumsOfNumbersAccumulate ==
  (SumsFilled /\ PiecesAreNumbers) => SumsAccumulate

\* the diffractive part takes the whole aggregate and the hard cross
\* section is zero: the soft and hard pieces are 0 * exp(-0 / 0)
SumsWithoutNondiffractive ==
  /\ Partitioned /\ SumsFilled
  /\ RLess(R(0), RAdd(call.xs[1], call.xs[2]))
  /\ call.partition.nondiffractive_all = R(0)
  /\ call.hard_xsec = R(0)
  /\ IsNaN(string_sub_cross_sections_sum_[6])

\* an array with soft and hard non-diffractive pieces above zero
SumsWithNondiffractive ==
  /\ SumsFilled /\ SumsAccumulate
  /\ RLess(R(0), string_sub_cross_sections[4])
  /\ RLess(R(0), string_sub_cross_sections[5])

(***************************************************************************)
(* Properties of resonance formation and inelastic scattering              *)
(***************************************************************************)

\* a TwoToOne or TwoToTwo branch was finalized
Formation ==
  /\ Selected /\ error = "none"
  /\ Chosen.type \in {"TwoToOne", "TwoToTwo"}

\* the factor of the incoming particle with the larger formation time, of
\* the second one when the times are equal
FactorOfLatest ==
  IF incoming_particles_[1].formation_time
       > incoming_particles_[2].formation_time
  THEN incoming_particles_[1].scaling
  ELSE incoming_particles_[2].scaling

\* C20: for TwoToOne and TwoToTwo the outgoing formation time is
\* max(t0, t1) when that is above the execution time, with the factor of the
\* incoming particle of the larger formation time (the second on a tie), and
\* the execution time otherwise, with the factor left at its default.
C20_FormationInheritance ==
  Formation =>
    \A i \in 1..Len(outgoing_particles_) :
      IF T_in > time_of_execution_
      THEN /\ outgoing_particles_[i].formation_time = T_in
           /\ outgoing_particles_[i].scaling = FactorOfLatest
      ELSE /\ outgoing_particles_[i].formation_time = time_of_execution_
           /\ outgoing_particles_[i].scaling
                = new_particle(outgoing_particles_[i].type).scaling

\* equal formation times above the execution time, unequal factors
C20_Witness ==
  /\ Formation /\ Chosen.type = "TwoToTwo"
  /\ Len(outgoing_particles_) = 2
  /\ T_in > time_of_execution_
  /\ incoming_particles_[1].formation_time
       = incoming_particles_[2].formation_time
  /\ incoming_particles_[1].scaling # incoming_particles_[2].scaling

\* a resonance of an unformed first particle and a formed second one
C20_WitnessResonance ==
  /\ Formation /\ Chosen.type = "TwoToOne"
  /\ incoming_particles_[1].formation_time > time_of_execution_
  /\ incoming_particles_[2].formation_time <= time_of_execution_
  /\ outgoing_particles_[1].scaling = incoming_particles_[1].scaling
  /\ outgoing_particles_[1].scaling # new_particle("Delta_pp").scaling

\* the larger formation time is the execution time itself
C20_WitnessFormed ==
  /\ Formation
  /\ T_in = time_of_execution_
  /\ \A i \in 1..Len(outgoing_particles_) :
       outgoing_particles_[i].formation_time = time_of_execution_

(***************************************************************************)
(* Properties of the soft subprocess draw                                  *)
(***************************************************************************)

\* the branches string_excitation_cross_sections put into the list
StringBranches ==
  {i \in 1..Len(collision_channels_) : branch_origin[i] = "string"}

\* a StringSoft branch of string_excitation_cross_sections was selected
SoftSelected ==
  /\ Selected /\ call.chosen \in StringBranches
  /\ Chosen.type = "StringSoft"

NotSpecified ==
  "soft string subprocess is not specified."

\* the string branches have a weight above zero, the StringSoft branch the
\* sum of the four soft pieces
StringWeights ==
  \A i \in StringBranches :
    /\ collision_channels_[i].type \in {"StringSoft", "StringHard"}
    /\ RLess(R(0), collision_channels_[i].weight)
    /\ collision_channels_[i].type = "StringSoft" =>
         /\ ~IsNaN(string_sub_cross_sections_sum_[5])
         /\ collision_channels_[i].weight = string_sub_cross_sections_sum_[5]

\* the draw gave one of the four soft subprocesses, of a piece above zero
SoftDrawn ==
  /\ call.local.iproc \in 0..3
  /\ RLess(R(0), string_sub_cross_sections[call.local.iproc + 1])
  /\ error # NotSpecified

\* C21: when a StringSoft branch made by string_excitation_cross_sections of
\* the same action is selected, the subprocess draw gives an index in
\* {0, 1, 2, 3} whose piece is above zero, never the hard piece, and the
\* error "soft string subprocess is not specified." is not raised; the
\* weight of the StringSoft branch is the sum of those four pieces and the
\* string branches have a weight above zero.
C21_SoftSubprocessDrawn ==
  /\ StringWeights
  /\ SoftSelected => SoftDrawn

\* the same for five pieces that are numbers
SoftSubprocessOfNumbers ==
  (StringBranches # {} /\ PiecesAreNumbers) =>
    /\ StringWeights
    /\ SoftSelected => SoftDrawn

\* no single-diffractive part and asserts compiled out: the cumulative
\* array is NaN from its second element on and no interval holds the draw
SoftDrawOnNaN ==
  /\ SoftSelected /\ ndebug
  /\ IsNaN(string_sub_cross_sections_sum_[5])
  /\ call.local.iproc = -1
  /\ error = NotSpecified

\* each of the four soft subprocesses is drawn
SoftDrawsSingleAX ==
  SoftSelected /\ SoftDrawn /\ call.local.iproc = 0

SoftDrawsSingleXB ==
  SoftSelected /\ SoftDrawn /\ call.local.iproc = 1

SoftDrawsDouble ==
  SoftSelected /\ SoftDrawn /\ call.local.iproc = 2

SoftDrawsNondiffractive ==
  SoftSelected /\ SoftDrawn /\ call.local.iproc = 3

====
